---- MODULE Spec2Model ----
(***************************************************************************)
(* Model of the participant-metadata resolver of the Cheeko voice agent    *)
(* (agent/agent.py, get_user_metadata) and of the room events that drive   *)
(* it, of the token servers (agent/server.py, server.py, api/token.py) and *)
(* of the spy tools (agent/spy_tools.py).  Each of the three has its own   *)
(* specification: Spec and FairSpec, ServerSpec, ToolsSpec.                *)
(*                                                                         *)
(* Strings that the code only compares or copies (display names, JSON      *)
(* string values, profile keys) are TLA+ strings.  A participant identity  *)
(* is a sequence of one-character strings, because the code lower-cases it *)
(* and searches it.  A metadata string is the sequence of its JSON lexemes *)
(* (the output of the scanner of json.loads); JsonLoads is the parser run  *)
(* on that sequence.                                                       *)
(*                                                                         *)
(* Time is counted in ticks of a quarter time unit, so that the 0.5-unit   *)
(* poll interval is 2 ticks and timeouts between two polls exist.          *)
(***************************************************************************)
EXTENDS Integers, Sequences, FiniteSets, TLC

(***************************************************************************)
(* Bounds of the model.                                                    *)
(***************************************************************************)
MaxRoster == 2

MaxEvents == 3

MaxTimeout == 3

MaxLate == 1

\* the requests that a token server takes
MaxRequests == 2

\* the calls of initialize() on one SpyToolsManager
MaxInits == 2

\* the messages and events that an API request returns
MaxItems == 3

(***************************************************************************)
(* Program constants.                                                      *)
(***************************************************************************)
PollInterval == 2

(***************************************************************************)
(* JSON values.  val.t is the Python type the value loads to, val.v its    *)
(* payload: the text of a scalar, the tuple of a list, the map of a dict.  *)
(***************************************************************************)
Str(s) == [t |-> "str", v |-> s]

Num(s) == [t |-> "num", v |-> s]

JTrue == [t |-> "bool", v |-> "true"]

JFalse == [t |-> "bool", v |-> "false"]

JNull == [t |-> "null", v |-> "null"]

List(seq) == [t |-> "list", v |-> seq]

Dict(m) == [t |-> "dict", v |-> m]

EmptyMap == [k \in {} |-> JNull]

ZeroLexemes == {"0", "-0", "0.0"}

\* bool(v) of a value loaded from JSON
Truthy(val) ==
    CASE val.t = "str"  -> val.v # ""
      [] val.t = "num"  -> val.v \notin ZeroLexemes
      [] val.t = "bool" -> val.v = "true"
      [] val.t = "null" -> FALSE
      [] val.t = "list" -> Len(val.v) > 0
      [] val.t = "dict" -> DOMAIN val.v # {}

\* (mutant) the new entries replace the dict instead of being merged into it
UpdateReplace(m, upd) == upd

\* dict.update: the entries of upd replace or extend those of m
Update(m, upd) == upd @@ m

(***************************************************************************)
(* Lexemes of a metadata string.                                           *)
(***************************************************************************)
Tok(kind) == [k |-> kind, s |-> ""]

S(text) == [k |-> "str", s |-> text]

N(text) == [k |-> "num", s |-> text]

LBrace == Tok("{")

RBrace == Tok("}")

LBrack == Tok("[")

RBrack == Tok("]")

Colon == Tok(":")

Comma == Tok(",")

(***************************************************************************)
(* json.loads on a lexeme sequence: a recursive-descent parser.  A parse   *)
(* result is [ok, val, nxt]; ok = FALSE stands for JSONDecodeError.        *)
(***************************************************************************)
ParseFail == [ok |-> FALSE, val |-> JNull, nxt |-> 0]

ParseOk(val, nxt) == [ok |-> TRUE, val |-> val, nxt |-> nxt]

RECURSIVE ParseValue(_, _)
RECURSIVE ParseElems(_, _, _)
RECURSIVE ParseMembers(_, _, _)

ParseValue(toks, i) ==
    IF i > Len(toks) THEN ParseFail
    ELSE LET tk == toks[i] IN
         CASE tk.k = "str"   -> ParseOk(Str(tk.s), i + 1)
           [] tk.k = "num"   -> ParseOk(Num(tk.s), i + 1)
           [] tk.k = "true"  -> ParseOk(JTrue, i + 1)
           [] tk.k = "false" -> ParseOk(JFalse, i + 1)
           [] tk.k = "null"  -> ParseOk(JNull, i + 1)
           [] tk.k = "["     -> IF i + 1 <= Len(toks) /\ toks[i + 1].k = "]"
                                THEN ParseOk(List(<<>>), i + 2)
                                ELSE ParseElems(toks, i + 1, <<>>)
           [] tk.k = "{"     -> IF i + 1 <= Len(toks) /\ toks[i + 1].k = "}"
                                THEN ParseOk(Dict(EmptyMap), i + 2)
                                ELSE ParseMembers(toks, i + 1, EmptyMap)
           [] OTHER          -> ParseFail

ParseElems(toks, i, acc) ==
    LET r == ParseValue(toks, i) IN
    IF ~r.ok \/ r.nxt > Len(toks) THEN ParseFail
    ELSE IF toks[r.nxt].k = "]" THEN ParseOk(List(Append(acc, r.val)), r.nxt + 1)
    ELSE IF toks[r.nxt].k = "," THEN ParseElems(toks, r.nxt + 1, Append(acc, r.val))
    ELSE ParseFail

ParseMembers(toks, i, acc) ==
    IF i + 1 > Len(toks) \/ toks[i].k # "str" \/ toks[i + 1].k # ":" THEN ParseFail
    ELSE LET r == ParseValue(toks, i + 2) IN
         IF ~r.ok \/ r.nxt > Len(toks) THEN ParseFail
         ELSE LET m == Update(acc, [k \in {toks[i].s} |-> r.val]) IN
              IF toks[r.nxt].k = "}" THEN ParseOk(Dict(m), r.nxt + 1)
              ELSE IF toks[r.nxt].k = "," THEN ParseMembers(toks, r.nxt + 1, m)
              ELSE ParseFail

\* the whole string must be one value: trailing lexemes are "Extra data"
JsonLoads(toks) ==
    LET r == ParseValue(toks, 1) IN
    IF r.ok /\ r.nxt = Len(toks) + 1 THEN [ok |-> TRUE, val |-> r.val]
    ELSE [ok |-> FALSE, val |-> JNull]

(***************************************************************************)
(* Participant identities and the agent test of check_participant.         *)
(***************************************************************************)
UpperLetters == <<"A","B","C","D","E","F","G","H","I","J","K","L","M","N","O","P","Q","R","S","T","U","V","W","X","Y","Z">>

LowerLetters == <<"a","b","c","d","e","f","g","h","i","j","k","l","m","n","o","p","q","r","s","t","u","v","w","x","y","z">>

\* str.lower on one character
LowerChar(c) ==
    IF \E i \in 1..Len(UpperLetters) : UpperLetters[i] = c
    THEN LowerLetters[CHOOSE i \in 1..Len(UpperLetters) : UpperLetters[i] = c]
    ELSE c

\* str.lower
Lower(s) == [i \in 1..Len(s) |-> LowerChar(s[i])]

\* str.startswith
StartsWith(s, prefix) == Len(s) >= Len(prefix) /\ SubSeq(s, 1, Len(prefix)) = prefix

\* the "in" operator on strings
Contains(s, sub) == \E i \in 1..(Len(s) - Len(sub) + 1) : SubSeq(s, i, i + Len(sub) - 1) = sub

AgentWord == <<"a","g","e","n","t">>

\* (mutant) the prefix test alone
IsAgentPrefixOnly(identity) == StartsWith(identity, AgentWord)

\* (mutant) the substring test without lower()
IsAgentCaseSensitive(identity) == StartsWith(identity, AgentWord) \/ Contains(identity, AgentWord)

\* the "Skip agents" test
IsAgent(identity) == StartsWith(identity, AgentWord) \/ Contains(Lower(identity), AgentWord)

\* (mutant) a placeholder list that knows "User" only
PlaceholdersUserOnly == {"User"}

Placeholders == {"User", "null", "undefined"}

\* (mutant) any non-empty display name is taken
HasRealNameNonEmpty(name) == name # ""

\* the "Check for Name" test
HasRealName(name) == name # "" /\ name \notin Placeholders

(***************************************************************************)
(* Inputs: the identities, display names and metadata strings that the     *)
(* participants of the room take.                                          *)
(***************************************************************************)
IdUser == <<"u","s","e","r","-","1">>

IdGuest == <<"g","u","e","s","t">>

IdAgent == <<"a","g","e","n","t","-","7">>

IdMixed == <<"M","y","A","G","e","n","t">>

\* ""
MetaNone == <<>>

\* {"name":"Abraham","city":"Kochi","profession":"Engineer"}
MetaFull == <<LBrace, S("name"), Colon, S("Abraham"), Comma, S("city"), Colon, S("Kochi"), Comma, S("profession"), Colon, S("Engineer"), RBrace>>

\* {"city":"Pune","state":"","age":0,"lang":"ml"}
MetaPartial == <<LBrace, S("city"), Colon, S("Pune"), Comma, S("state"), Colon, S(""), Comma, S("age"), Colon, N("0"), Comma, S("lang"), Colon, S("ml"), RBrace>>

\* {"name":"Abraham"    (cut short)
MetaBad == <<LBrace, S("name"), Colon, S("Abraham")>>

\* ["Kochi"]
MetaList == <<LBrack, S("Kochi"), RBrack>>

Metas == {MetaNone, MetaFull, MetaPartial, MetaBad, MetaList}

\* the timeout argument: none, or MaxTimeout ticks
Timeouts == {0, MaxTimeout}

SleepTimes == PollInterval..(PollInterval + MaxLate)

Participant(id, name, meta) == [identity |-> id, name |-> name, metadata |-> meta]

\* json.loads of each metadata string of the room
Loaded == [m \in Metas |-> JsonLoads(m)]

\* the states that the participants of the room take: a user and a guest,
\* with absent, placeholder or real display names, and two agents that show
\* a real display name and publish no or valid metadata
Candidates ==
    {Participant(IdUser, n, m) : n \in {"", "User", "Abe"}, m \in Metas}
    \cup {Participant(IdGuest, n, m) : n \in {"null", "undefined", "Abe"}, m \in Metas \ {MetaFull}}
    \cup {Participant(id, "Abe", m) : id \in {IdAgent, IdMixed}, m \in {MetaNone, MetaFull}}

\* the display names that show in the room
Names == {p.name : p \in Candidates}

(***************************************************************************)
(* The profile (the dict "result") and check_participant.                  *)
(***************************************************************************)
Defaults == [k \in {"name", "city", "state", "profession", "interests"} |->
              CASE k = "name"       -> Str("Boss")
                [] k = "city"       -> Str("India")
                [] k = "state"      -> Str("")
                [] k = "profession" -> Str("Professional")
                [] k = "interests"  -> Str("Success")]

\* (mutant) the comprehension without its "if v"
TruthyItemsAll(data) == data

\* {k: v for k, v in data.items() if v}
TruthyItems(data) == [k \in {x \in DOMAIN data : Truthy(data[x])} |-> data[k]]

\* (mutant) the completion test made on the display name of the participant
\* in place of the name that the profile has accumulated
NameOnlyVerdictOwnName(p, result) ==
    IF HasRealName(p.name)
    THEN (IF p.metadata = <<>> THEN "False" ELSE "True")
    ELSE "False"

\* (mutant) the check without the "has a name" path of lines 65-71
NameOnlyVerdictNoNamePath(p, result) == "False"

\* (mutant) the completion test without its "if not participant.metadata"
NameOnlyVerdictAnyMetadata(p, result) == IF result["name"] # Str("Boss") THEN "True" ELSE "False"

\* the statements after the metadata block: the "has a name" completion test
NameOnlyVerdict(p, result) ==
    IF result["name"] # Str("Boss")
    THEN (IF p.metadata = <<>> THEN "False" ELSE "True")
    ELSE "False"

\* (mutant) the completion test made on the name that the profile held
\* when the check began
CheckParticipantStaleName(p, result, event) ==
    IF IsAgent(p.identity)
    THEN [result |-> result, event |-> event, ret |-> "False"]
    ELSE LET named == IF HasRealName(p.name)
                      THEN [result EXCEPT !["name"] = Str(p.name)]
                      ELSE result
             data == Loaded[p.metadata]
         IN  IF p.metadata # <<>> /\ data.ok
             THEN IF data.val.t = "dict"
                  THEN [result |-> Update(named, TruthyItems(data.val.v)),
                        event |-> TRUE, ret |-> "True"]
                  ELSE [result |-> named, event |-> event, ret |-> "raise"]
             ELSE [result |-> named, event |-> event,
                   ret |-> NameOnlyVerdict(p, result)]

\* check_participant(p) run on the profile "result" and the flag "event":
\* the profile and flag afterwards and the outcome, which is "True", "False"
\* or "raise" (the AttributeError of data.items() on a value that is no dict)
CheckParticipant(p, result, event) ==
    IF IsAgent(p.identity)
    THEN [result |-> result, event |-> event, ret |-> "False"]
    ELSE LET named == IF HasRealName(p.name)
                      THEN [result EXCEPT !["name"] = Str(p.name)]
                      ELSE result
             data == Loaded[p.metadata]
         IN  IF p.metadata # <<>> /\ data.ok
             THEN IF data.val.t = "dict"
                  THEN [result |-> Update(named, TruthyItems(data.val.v)),
                        event |-> TRUE, ret |-> "True"]
                  ELSE [result |-> named, event |-> event, ret |-> "raise"]
             ELSE [result |-> named, event |-> event,
                   ret |-> NameOnlyVerdict(p, named)]

\* one entry of the record of checks made by a step
CheckEntry(p, result, event, out, by) ==
    [p |-> p, before |-> result, after |-> out.result,
     evBefore |-> event, evAfter |-> out.event, ret |-> out.ret, by |-> by]

\* "for p in remote_participants.values(): if check_participant(p): return":
\* the checks are made in roster order and stop at the first that returns
\* True or raises
\* (the one-element set binds out to the value of the check, once)
RECURSIVE ScanFrom(_, _, _, _, _)
ScanFrom(roster, i, result, event, log) ==
    IF i > Len(roster)
    THEN [result |-> result, event |-> event, ret |-> "False", log |-> log]
    ELSE CHOOSE sc \in
           {IF out.ret = "False"
            THEN ScanFrom(roster, i + 1, out.result, out.event,
                          Append(log, CheckEntry(roster[i], result, event, out, "scan")))
            ELSE [result |-> out.result, event |-> out.event, ret |-> out.ret,
                  log |-> Append(log, CheckEntry(roster[i], result, event, out, "scan"))]
            : out \in {CheckParticipant(roster[i], result, event)}} : TRUE

Scan(roster, result, event) == ScanFrom(roster, 1, result, event, <<>>)

(***************************************************************************)
(* What the inputs are, stated independently of the code: which identities *)
(* belong to agents, which display names are real, and what each metadata  *)
(* string contributes to a profile.  The observers below and the           *)
(* properties are stated with these.                                       *)
(***************************************************************************)
AgentIdentities == {IdAgent, IdMixed}

RealNames == {"Abe"}

RecordMetas == {MetaFull, MetaPartial}

MalformedMetas == {MetaBad}

Eligible(p) == p.identity \notin AgentIdentities

\* the truthy entries of the record that a metadata string denotes
Contribution(meta) ==
    CASE meta = MetaFull    -> [k \in {"name", "city", "profession"} |->
                                  CASE k = "name" -> Str("Abraham")
                                    [] k = "city" -> Str("Kochi")
                                    [] k = "profession" -> Str("Engineer")]
      [] meta = MetaPartial -> [k \in {"city", "lang"} |->
                                  CASE k = "city" -> Str("Pune")
                                    [] k = "lang" -> Str("ml")]
      [] OTHER              -> EmptyMap

\* the <<field, value>> pairs that a participant offers to the profile
Offer(p) ==
    IF ~Eligible(p) THEN {}
    ELSE (IF p.name \in RealNames THEN {<<"name", Str(p.name)>>} ELSE {})
         \cup {<<k, Contribution(p.metadata)[k]>> : k \in DOMAIN Contribution(p.metadata)}

\* the profile of the data model with every field at its default
DefaultProfile == [name |-> Str("Boss"), city |-> Str("India"), state |-> Str(""), profession |-> Str("Professional"), interests |-> Str("Success")]

ProfileFields == {"name", "city", "state", "profession", "interests"}

\* base with the entries of c laid over it
Override(base, c) == c @@ base

\* base with the display name of p adopted, when p has a real one
WithDisplayName(base, p) == IF p.name \in RealNames THEN Override(base, [k \in {"name"} |-> Str(p.name)]) ELSE base

\* the profile that a check of p is to leave, by the algorithm of the
\* resolver: nothing from an agent; from anyone else the real display name,
\* then the truthy entries of the metadata record
Expected(base, p) == IF Eligible(p) THEN Override(WithDisplayName(base, p), Contribution(p.metadata)) ELSE base

\* Expected over the participants of a record of checks, in order
RECURSIVE LearnFrom(_, _)
LearnFrom(base, log) == IF log = <<>> THEN base ELSE LearnFrom(Expected(base, Head(log).p), Tail(log))

\* an eligible participant with a placeholder display name and no metadata
Plain(p) == Eligible(p) /\ p.name \in {"User", "null", "undefined"} /\ p.metadata = MetaNone

(***************************************************************************)
(* The token servers: agent/server.py (GET and POST /api/token),           *)
(* server.py (GET /api/token) and the serverless function api/token.py.    *)
(*                                                                         *)
(* A request body is the sequence of its JSON lexemes, as a metadata       *)
(* string is; request.json() is JsonLoads and json.dumps is JsonDumps.     *)
(* Numbers are written as repr writes them, so that a number loaded and    *)
(* dumped keeps its text.  A room name, an identity and the hex form of a  *)
(* UUID are sequences of characters.  A signed token is the record of its  *)
(* claims (the expiry times are left out).                                 *)
(***************************************************************************)
EnvNames == {"LIVEKIT_URL", "LIVEKIT_API_KEY", "LIVEKIT_API_SECRET"}

\* os.getenv(name): None when the variable is not set, else its text
Unset == [set |-> FALSE, text |-> ""]

EnvVal(text) == [set |-> TRUE, text |-> text]

\* bool(v) of a value of os.getenv
EnvTruthy(v) == v.set /\ v.text # ""

\* the environments that a server is started in
Environs ==
    {[n \in EnvNames |-> CASE n = "LIVEKIT_URL"     -> url
                           [] n = "LIVEKIT_API_KEY" -> key
                           [] OTHER                 -> secret]
       : url \in {Unset, EnvVal(""), EnvVal("wss://cheeko.livekit.cloud")},
         key \in {Unset, EnvVal("APIkey")},
         secret \in {Unset, EnvVal("s3cret")}}

\* (mutant) a test for None in place of the truth test
ConfiguredNotNone(env) == \A n \in EnvNames : env[n].set

\* all([LIVEKIT_URL, LIVEKIT_API_KEY, LIVEKIT_API_SECRET])
Configured(env) == \A n \in EnvNames : EnvTruthy(env[n])

\* uuid.uuid4().hex: values that differ, two of them in the later digits only
HexA == <<"3","f","2","a","9","c","1","e","5","b","7","d","4","e","0","a","9","c","3","f","1","b","2","d","6","e","8","a","0","c","4","f">>

HexB == <<"3","f","2","a","9","c","1","e","0","d","1","c","4","b","6","f","a","8","2","e","7","d","9","b","3","c","5","f","1","a","0","e">>

HexC == <<"b","0","1","d","f","a","c","e","1","2","3","4","4","a","b","c","8","d","e","f","0","1","2","3","4","5","6","7","8","9","a","b">>

Uuids == {HexA, HexB, HexC}

\* the slice length of uuid.uuid4().hex[:8]
SessionIdLen == 8

\* hex[:8]
SessionId(hex) == SubSeq(hex, 1, SessionIdLen)

UserPrefix == <<"u","s","e","r","-">>

RoomPrefix == <<"c","h","e","e","k","o","-","r","o","o","m","-">>

LocalRoom == <<"c","h","e","e","k","o","-","l","o","c","a","l","-","t","e","s","t">>

VercelRoom == <<"c","h","e","e","k","o","-","r","o","o","m">>

\* (mutant) the scalars written as str() writes them
DumpScalarRepr(val) ==
    CASE val.t = "str"  -> <<S(val.v)>>
      [] val.t = "num"  -> <<N(val.v)>>
      [] val.t = "bool" -> <<Tok(IF val.v = "true" THEN "True" ELSE "False")>>
      [] OTHER          -> <<Tok("None")>>

\* json.dumps of a string, a number, a bool or None
DumpScalar(val) ==
    CASE val.t = "str"  -> <<S(val.v)>>
      [] val.t = "num"  -> <<N(val.v)>>
      [] val.t = "bool" -> <<Tok(val.v)>>
      [] OTHER          -> <<Tok("null")>>

\* json.dumps: the lexemes of the text written for a value.  The members of
\* a dict are written one by one in the order of the dict.
RECURSIVE DumpValue(_)
RECURSIVE DumpElems(_, _)
RECURSIVE DumpMembers(_, _)

DumpValue(val) ==
    CASE val.t = "list" -> <<LBrack>> \o DumpElems(val.v, 1) \o <<RBrack>>
      [] val.t = "dict" -> <<LBrace>> \o DumpMembers(val.v, DOMAIN val.v) \o <<RBrace>>
      [] OTHER          -> DumpScalar(val)

DumpElems(seq, i) ==
    IF i > Len(seq) THEN <<>>
    ELSE DumpValue(seq[i]) \o (IF i < Len(seq) THEN <<Comma>> ELSE <<>>) \o DumpElems(seq, i + 1)

DumpMembers(m, keys) ==
    IF keys = {} THEN <<>>
    ELSE LET k == CHOOSE x \in keys : TRUE
         IN  <<S(k), Colon>> \o DumpValue(m[k])
             \o (IF keys \ {k} # {} THEN <<Comma>> ELSE <<>>)
             \o DumpMembers(m, keys \ {k})

JsonDumps(val) == DumpValue(val)

\* {"userDetails":{"name":"Priya"}}
BodyPriya == <<LBrace, S("userDetails"), Colon, LBrace, S("name"), Colon, S("Priya"), RBrace, RBrace>>

\* {"userDetails":{"name":"Abraham","city":"Kochi","age":30,"vip":true,"tags":["a","b"],"state":""}}
BodyProfile == <<LBrace, S("userDetails"), Colon, LBrace, S("name"), Colon, S("Abraham"), Comma, S("city"), Colon, S("Kochi"), Comma, S("age"), Colon, N("30"), Comma, S("vip"), Colon, Tok("true"), Comma, S("tags"), Colon, LBrack, S("a"), Comma, S("b"), RBrack, Comma, S("state"), Colon, S(""), RBrace, RBrace>>

\* {"userDetails":{"city":"Pune","extra":{"k":null}}}
BodyNoName == <<LBrace, S("userDetails"), Colon, LBrace, S("city"), Colon, S("Pune"), Comma, S("extra"), Colon, LBrace, S("k"), Colon, Tok("null"), RBrace, RBrace, RBrace>>

\* {"userDetails":{}}
BodyEmptyDetails == <<LBrace, S("userDetails"), Colon, LBrace, RBrace, RBrace>>

\* {}
BodyNoDetails == <<LBrace, RBrace>>

\* {"userDetails":["Priya"]}
BodyListDetails == <<LBrace, S("userDetails"), Colon, LBrack, S("Priya"), RBrack, RBrace>>

\* ["Priya"]
BodyNotObject == <<LBrack, S("Priya"), RBrack>>

\* {"userDetails":    (cut short)
BodyCutShort == <<LBrace, S("userDetails"), Colon>>

\* no body
BodyNone == <<>>

Bodies == {BodyPriya, BodyProfile, BodyNoName, BodyEmptyDetails, BodyNoDetails, BodyListDetails, BodyNotObject, BodyCutShort, BodyNone}

Methods == {"GET", "POST"}

\* the outcome of a handler: the response (status, reply), whether a token
\* was signed, what became of the agent dispatch ("none": not attempted),
\* whether a UUID was drawn and whether an exception left the handler
Outcome(status, reply, minted, dispatch, drew, raised) ==
    [status |-> status, reply |-> reply, minted |-> minted, dispatch |-> dispatch, drew |-> drew, raised |-> raised]

NotConfigured == Outcome(500, [error |-> <<"LiveKit credentials not configured">>], FALSE, "none", FALSE, FALSE)

\* (mutant) the dispatch without its try/except
TryDispatchUncaught(ok) == [dispatch |-> IF ok THEN "created" ELSE "failed", raised |-> ~ok]

\* try: create_dispatch(...); aclose()  except Exception: print(...)
TryDispatch(ok) == [dispatch |-> IF ok THEN "created" ELSE "failed", raised |-> FALSE]

\* api.VideoGrants(room_join=True, room=..., can_publish=True, can_subscribe=True)
VideoGrants(room) == [roomJoin |-> TRUE, room |-> room, canPublish |-> TRUE, canSubscribe |-> TRUE]

\* "user_data and isinstance(user_data, dict)"
IsRecord(user_data) == Truthy(user_data) /\ user_data.t = "dict"

\* user_name: user_data.get("name", "User") of a record, else "User"
UserName(user_data) ==
    IF IsRecord(user_data) /\ "name" \in DOMAIN user_data.v THEN user_data.v["name"] ELSE Str("User")

\* the metadata of the token: json.dumps(user_data) of a record, else not set
MetadataClaim(user_data) == IF IsRecord(user_data) THEN JsonDumps(user_data) ELSE <<>>

\* create_token(request, user_data) of agent/server.py; hex is the UUID that
\* uuid4 gives and ok tells whether the dispatch call succeeds
CreateToken(env, user_data, hex, ok) ==
    IF ~Configured(env) THEN NotConfigured
    ELSE LET session_id == SessionId(hex)
             identity == UserPrefix \o session_id
             room_name == RoomPrefix \o session_id
             jwt_token == [iss |-> env["LIVEKIT_API_KEY"].text,
                           signedWith |-> env["LIVEKIT_API_SECRET"].text,
                           sub |-> identity,
                           name |-> UserName(user_data),
                           video |-> VideoGrants(room_name),
                           metadata |-> MetadataClaim(user_data)]
             d == TryDispatch(ok)
         IN  Outcome(200,
                     [token |-> jwt_token, url |-> env["LIVEKIT_URL"].text, identity |-> identity, room |-> room_name],
                     TRUE, d.dispatch, TRUE, d.raised)

\* the response of post_token's "except Exception"
BadRequest(detail, minted, dispatch, drew) ==
    Outcome(400, [error |-> <<"Failed to parse request: ", detail>>], minted, dispatch, drew, FALSE)

\* post_token(request) of agent/server.py
PostToken(env, body, hex, ok) ==
    LET data == JsonLoads(body)
    IN  IF ~data.ok THEN BadRequest("JSONDecodeError", FALSE, "none", FALSE)
        ELSE IF data.val.t # "dict" THEN BadRequest("AttributeError", FALSE, "none", FALSE)
        ELSE LET user_data == IF "userDetails" \in DOMAIN data.val.v THEN data.val.v["userDetails"] ELSE JNull
                 out == CreateToken(env, user_data, hex, ok)
             IN  IF out.raised THEN BadRequest("Exception", out.minted, out.dispatch, out.drew) ELSE out

\* get_token(request) of agent/server.py
GetToken(env, hex, ok) == CreateToken(env, JNull, hex, ok)

\* get_token(request) of server.py
LocalGetToken(env, hex, ok) ==
    IF ~Configured(env) THEN NotConfigured
    ELSE LET identity == UserPrefix \o SessionId(hex)
             jwt_token == [iss |-> env["LIVEKIT_API_KEY"].text,
                           signedWith |-> env["LIVEKIT_API_SECRET"].text,
                           sub |-> identity,
                           name |-> Str("User"),
                           video |-> VideoGrants(LocalRoom),
                           metadata |-> <<>>]
             d == TryDispatch(ok)
         IN  Outcome(200,
                     [token |-> jwt_token, url |-> env["LIVEKIT_URL"].text, identity |-> identity, room |-> LocalRoom],
                     TRUE, d.dispatch, TRUE, d.raised)

\* handler(request) of api/token.py
Handler(env, method, hex) ==
    IF method # "GET"
    THEN Outcome(405, [error |-> <<"Method not allowed">>], FALSE, "none", FALSE, FALSE)
    ELSE IF ~Configured(env)
    THEN NotConfigured
    ELSE LET identity == UserPrefix \o SessionId(hex)
             jwt_token == [iss |-> env["LIVEKIT_API_KEY"].text,
                           signedWith |-> env["LIVEKIT_API_SECRET"].text,
                           sub |-> identity,
                           name |-> Str("User"),
                           video |-> VideoGrants(VercelRoom)]
         IN  Outcome(200,
                     [token |-> jwt_token, url |-> env["LIVEKIT_URL"].text, identity |-> identity, room |-> VercelRoom],
                     TRUE, "none", TRUE, FALSE)

\* the web framework answers a handler that raised with status 500
Answer(out) ==
    IF out.raised
    THEN Outcome(500, [error |-> <<"500 Internal Server Error">>], out.minted, out.dispatch, out.drew, TRUE)
    ELSE out

\* one request and what the server did with it
Served(server, method, body, out) ==
    [server |-> server, method |-> method, body |-> body, status |-> out.status, reply |-> out.reply,
     minted |-> out.minted, dispatch |-> out.dispatch]

(***************************************************************************)
(* SpyToolsManager (agent/spy_tools.py): initialize() and the three tools. *)
(*                                                                         *)
(* A service or client handle is "None" or the name of the object.  What   *)
(* the surroundings do during a call (the stored credentials, the OAuth    *)
(* flow, the API answers) is an input of the action.  A returned string is *)
(* the sequence of the parts that its f-string puts together.              *)
(***************************************************************************)
NewManager(github_token) ==
    [github_token |-> github_token,
     gmail_service |-> "None", calendar_service |-> "None",
     github_client |-> "None", github_username |-> "None",
     google_authenticated |-> FALSE, github_authenticated |-> FALSE]

\* what _init_google meets: GOOGLE_TOKEN_JSON and token.json ("unset" or
\* "missing", unreadable, or credentials that are valid, expired with a
\* refresh token, or neither), whether the refresh, the OAuth flow, the
\* writing of token.json and the two build() calls succeed, and whether
\* credentials.json exists
GoogleRuns ==
    [envToken : {"unset", "garbage", "valid", "expired", "stale"},
     fileToken : {"missing", "corrupt", "valid", "expired", "stale"},
     secrets : BOOLEAN, authOk : BOOLEAN, saveOk : BOOLEAN,
     built : {"none", "gmail", "both"}]

\* creds after the two loading steps: "None", "raise" or the state of the
\* credentials object
LoadedCreds(g) ==
    LET fromEnv == IF g.envToken \in {"unset", "garbage"} THEN "None" ELSE g.envToken
    IN  IF fromEnv # "None" THEN fromEnv
        ELSE CASE g.fileToken = "missing" -> "None"
               [] g.fileToken = "corrupt" -> "raise"
               [] OTHER                   -> g.fileToken

\* the "except Exception" of _init_google
GoogleFailed(m) == [m |-> [m EXCEPT !.google_authenticated = FALSE], ret |-> FALSE]

\* (mutant) the flag raised before the services are built and left so when
\* the second build() fails
BuildServicesFlagFirst(m, g) ==
    CASE g.built = "none"  -> GoogleFailed(m)
      [] g.built = "gmail" -> [m |-> [m EXCEPT !.gmail_service = "gmail-v1",
                                               !.google_authenticated = TRUE],
                               ret |-> FALSE]
      [] OTHER             -> [m |-> [m EXCEPT !.gmail_service = "gmail-v1",
                                               !.calendar_service = "calendar-v3",
                                               !.google_authenticated = TRUE],
                               ret |-> TRUE]

\* "Build services" and the lines after it
BuildServices(m, g) ==
    CASE g.built = "none"  -> GoogleFailed(m)
      [] g.built = "gmail" -> GoogleFailed([m EXCEPT !.gmail_service = "gmail-v1"])
      [] OTHER             -> [m |-> [m EXCEPT !.gmail_service = "gmail-v1",
                                               !.calendar_service = "calendar-v3",
                                               !.google_authenticated = TRUE],
                               ret |-> TRUE]

\* _init_google()
InitGoogle(m, g) ==
    LET creds == LoadedCreds(g)
    IN  CASE creds = "raise"   -> GoogleFailed(m)
          [] creds = "valid"   -> BuildServices(m, g)
          [] creds = "expired" -> IF g.authOk /\ g.saveOk THEN BuildServices(m, g) ELSE GoogleFailed(m)
          [] OTHER             -> IF ~g.secrets THEN [m |-> m, ret |-> FALSE]
                                  ELSE IF g.authOk /\ g.saveOk THEN BuildServices(m, g)
                                  ELSE GoogleFailed(m)

\* what the first request of the GitHub client does
GithubRuns == {"ok", "GithubException", "ConnectionError"}

\* _init_github(); raised: an exception that is no GithubException leaves it
InitGithub(m, h) ==
    IF m.github_token = "" THEN [m |-> m, ret |-> FALSE, raised |-> FALSE]
    ELSE LET c == [m EXCEPT !.github_client = "Github"]
         IN  CASE h = "ok"              -> [m |-> [c EXCEPT !.github_username = "octocat", !.github_authenticated = TRUE],
                                            ret |-> TRUE, raised |-> FALSE]
               [] h = "GithubException" -> [m |-> [c EXCEPT !.github_authenticated = FALSE], ret |-> FALSE, raised |-> FALSE]
               [] OTHER                 -> [m |-> c, ret |-> FALSE, raised |-> TRUE]

\* the errors that an API call raises: the type of the exception, its text,
\* whether it is a GithubException and, then, its status
Error(type, message, github, status) == [type |-> type, message |-> message, github |-> github, status |-> status]

NoError == Error("", "", FALSE, 0)

GoogleErrors == {Error("HttpError", "quotaExceeded for user 42", FALSE, 0), Error("TimeoutError", "timed out", FALSE, 0), Error("RefreshError", "invalid_grant: token revoked", FALSE, 0)}

GithubErrors == {Error("GithubException", "Not Found", TRUE, 404), Error("RateLimitExceededException", "API rate limit exceeded for octocat", TRUE, 403), Error("BadCredentialsException", "Bad credentials", TRUE, 401), Error("ConnectionError", "Max retries exceeded with url: /user", FALSE, 0)}

\* (mutant) the text of the exception in place of the name of its type
ErrorLabelMessage(e) == e.message

\* type(e).__name__
ErrorLabel(e) == e.type

GmailNoAccess == "Oh, you haven't given me access to your inbox yet. Scared of what I might find? Smart move, coward."

GmailInboxZero == "Inbox zero? Either you're actually productive, or you've been ignoring everything and marked it all as read. I suspect the latter."

GmailFailed == "Your inbox is giving me anxiety errors. I tried to check your email, but your digital life is as broken as your code. Error: "

CalendarNoAccess == "No calendar access. You're either privacy-conscious or hiding something. I'll assume you have 47 meetings you're avoiding."

CalendarEmpty == "Empty calendar today. Either you have no responsibilities, or you've given up on planning. Both are concerning for someone who claims to be 'busy'."

CalendarFailed == "Calendar error. Your schedule is as broken as your time management. Error: "

GithubNoAccess == "No GitHub access. Can't judge your code crimes today. Consider yourself lucky, but I'm judging you anyway."

GithubNotFound == "User not found. Did your account get banned for pushing terrible code?"

GithubApiError == "GitHub API error. Even APIs are tired of your requests. Error: "

GithubFailed == "GitHub spy failed. Your code quality has infected my API calls. Error: "

\* what a tool call did: the string it returned, the number of API requests
\* it made, whether one of them raised and whether an exception left the tool
Told(out, api) == [out |-> out, api |-> api, failed |-> FALSE, raised |-> FALSE]

\* the same for a return from an except clause
Caught(out, api) == [out |-> out, api |-> api, failed |-> TRUE, raised |-> FALSE]

\* the AttributeError of a call on a handle that is None
NoneHandle == Error("AttributeError", "'NoneType' object has no attribute", FALSE, 0)

\* (mutant) the guard of get_github_activity reading the Google flag
GithubAllowedByGoogle(m) == m.google_authenticated

\* the guard of get_github_activity
GithubAllowed(m) == m.github_authenticated

\* get_unread_email_summary(): the list request gives n messages; request
\* number failAt (1 the list, 1 + j the get of message j; 0 none) raises e
UnreadEmailSummary(m, n, failAt, e) ==
    IF ~m.google_authenticated THEN Told(<<GmailNoAccess>>, 0)
    ELSE IF m.gmail_service = "None" THEN Caught(<<GmailFailed, ErrorLabel(NoneHandle)>>, 0)
    ELSE IF failAt = 1 THEN Caught(<<GmailFailed, ErrorLabel(e)>>, 1)
    ELSE IF n = 0 THEN Told(<<GmailInboxZero>>, 1)
    ELSE IF failAt \in 2..(n + 1) THEN Caught(<<GmailFailed, ErrorLabel(e)>>, failAt)
    ELSE Told(<<"Found ", ToString(n), " unread emails. Here's the damage:\n">>, n + 1)

\* check_calendar_today(): the list request gives n events or raises e
CalendarToday(m, n, failAt, e) ==
    IF ~m.google_authenticated THEN Told(<<CalendarNoAccess>>, 0)
    ELSE IF m.calendar_service = "None" THEN Caught(<<CalendarFailed, ErrorLabel(NoneHandle)>>, 0)
    ELSE IF failAt = 1 THEN Caught(<<CalendarFailed, ErrorLabel(e)>>, 1)
    ELSE IF n = 0 THEN Told(<<CalendarEmpty>>, 1)
    ELSE Told(<<"Today's schedule (", ToString(n), " events). Let's see what you're avoiding:\n">>, 1)

\* the "Verdict" of get_github_activity
Verdict(push_count) ==
    IF push_count = 0 THEN "Zero pushes"
    ELSE IF push_count < 3 THEN "Barely alive"
    ELSE "Some activity"

\* the two except clauses of get_github_activity
GithubCaught(e, api) ==
    IF e.github
    THEN (IF e.status = 404 THEN Caught(<<GithubNotFound>>, api)
          ELSE Caught(<<GithubApiError, ToString(e.status)>>, api))
    ELSE Caught(<<GithubFailed, ErrorLabel(e)>>, api)

\* get_github_activity(): the events request gives n events, pushes of them
\* PushEvents; request number failAt (1 the events, 2 the attributes of the
\* user; 0 none) raises e.  The line on the last commit is left out.
GithubActivity(m, n, pushes, failAt, e) ==
    IF ~GithubAllowed(m) THEN Told(<<GithubNoAccess>>, 0)
    ELSE IF m.github_client = "None" THEN GithubCaught(NoneHandle, 0)
    ELSE IF failAt = 1 THEN GithubCaught(e, 1)
    ELSE IF n = 0 THEN Told(<<"No recent activity for ", m.github_username, ". Ghost developer detected.">>, 1)
    ELSE IF failAt = 2 THEN GithubCaught(e, 2)
    ELSE Told(<<"GitHub audit for ", m.github_username, "- Recent pushes: ", ToString(pushes), Verdict(pushes)>>, 2)

NotInitialized == [kind |-> "none", google |-> FALSE, github |-> FALSE]

NoCall == [tool |-> "none", out |-> <<>>, api |-> 0, raised |-> FALSE, failed |-> FALSE, err |-> NoError,
           google |-> FALSE, github |-> FALSE, initialized |-> FALSE]

(***************************************************************************)
(* State.                                                                  *)
(*   roster    ctx.room.remote_participants, in insertion order            *)
(*   events    number of room events so far (bounded by MaxEvents)         *)
(*   pc        where get_user_metadata is: "idle" before the call,         *)
(*             "sleeping" in asyncio.sleep, "returned", "raised"           *)
(*   result    the dict result (Defaults until the call creates it)        *)
(*   event     metadata_event.is_set()                                     *)
(*   timeout   the timeout argument, elapsed the loop time since           *)
(*             start_time, both in ticks                                   *)
(* Observers (not read by the program):                                    *)
(*   sleeps    number of asyncio.sleep calls completed                     *)
(*   via       the path the call ended on                                  *)
(*   retval    the value of the profile at the return                      *)
(*   checks    the check_participant calls made by the last step           *)
(*   eligibleSeen, plainOnly, offered                                      *)
(*             whether an eligible participant was in the room during the  *)
(*             call, whether all of them were Plain, and what they offered *)
(*   learned   the profile Expected of the checks made during the call     *)
(***************************************************************************)
VARIABLES roster, events, pc, result, event, timeout, elapsed, sleeps, via, retval, checks, eligibleSeen, plainOnly, offered, learned

\* The token servers:
\*   environ   os.getenv of the three LiveKit settings
\*   drawn     the values that uuid4 has given (observer)
\*   requests  the requests taken and what was done with each (observer)
VARIABLES environ, drawn, requests

\* The spy tools:
\*   manager     the fields of the SpyToolsManager
\*   initResult  how the last initialize() ended (observer)
\*   inits       number of initialize() calls (bounded by MaxInits)
\*   lastCall    the last tool call and what it did (observer)
VARIABLES manager, initResult, inits, lastCall

resolverVars == <<roster, events, pc, result, event, timeout, elapsed, sleeps, via, retval, checks, eligibleSeen, plainOnly, offered, learned>>

serverVars == <<environ, drawn, requests>>

toolVars == <<manager, initResult, inits, lastCall>>

vars == <<resolverVars, serverVars, toolVars>>

\* no token server runs
ServerOff == environ = [n \in EnvNames |-> Unset] /\ drawn = {} /\ requests = <<>>

\* a manager that is constructed and not used
ToolsOff == manager = NewManager("") /\ initResult = NotInitialized /\ inits = 0 /\ lastCall = NoCall

ResolverInit ==
    /\ roster = <<>>
    /\ events = 0
    /\ pc = "idle"
    /\ result = Defaults
    /\ event = FALSE
    /\ timeout = 0
    /\ elapsed = 0
    /\ sleeps = 0
    /\ via = "none"
    /\ retval = EmptyMap
    /\ checks = <<>>
    /\ eligibleSeen = FALSE
    /\ plainOnly = TRUE
    /\ offered = {}
    /\ learned = DefaultProfile

Init == ResolverInit /\ ServerOff /\ ToolsOff

\* the listeners of lines 78-86 are registered by the call and never removed
Registered == pc # "idle"

\* the room goes on while the job runs; a raised call ends the job
RoomLive == pc \in {"idle", "sleeping", "returned"} /\ events < MaxEvents

\* the body shared by on_participant_connected and on_metadata_changed:
\* check_participant(participant), its value dropped; an exception goes to
\* the event emitter, not to get_user_metadata
Deliver(p) ==
    IF Registered
    THEN \E out \in {CheckParticipant(p, result, event)} :
             /\ result' = out.result
             /\ event' = out.event
             /\ checks' = <<CheckEntry(p, result, event, out, "callback")>>
    ELSE /\ checks' = <<>>
         /\ UNCHANGED <<result, event>>

\* the observers take note of a participant state that shows during the call
\* (checked: the step runs a callback on it)
Observe(p, checked) ==
    IF pc = "sleeping"
    THEN /\ eligibleSeen' = (eligibleSeen \/ Eligible(p))
         /\ plainOnly' = (plainOnly /\ (Eligible(p) => Plain(p)))
         /\ offered' = offered \cup Offer(p)
         /\ learned' = IF checked THEN Expected(learned, p) ELSE learned
    ELSE UNCHANGED <<eligibleSeen, plainOnly, offered, learned>>

\* a participant joins the room: participant_connected
Join(p) ==
    /\ RoomLive
    /\ Len(roster) < MaxRoster
    /\ \A i \in 1..Len(roster) : roster[i].identity # p.identity
    /\ roster' = Append(roster, p)
    /\ events' = events + 1
    /\ Deliver(p)
    /\ Observe(p, TRUE)
    /\ UNCHANGED <<pc, timeout, elapsed, sleeps, via, retval>>
    /\ UNCHANGED <<serverVars, toolVars>>

\* a participant leaves the room: no listener of get_user_metadata
Leave(i) ==
    /\ RoomLive
    /\ i \in 1..Len(roster)
    /\ roster' = [j \in 1..(Len(roster) - 1) |-> IF j < i THEN roster[j] ELSE roster[j + 1]]
    /\ events' = events + 1
    /\ checks' = <<>>
    /\ UNCHANGED <<pc, result, event, timeout, elapsed, sleeps, via, retval, eligibleSeen, plainOnly, offered, learned>>
    /\ UNCHANGED <<serverVars, toolVars>>

\* a participant publishes new metadata: participant_metadata_changed
MetadataChanged(i, meta) ==
    /\ RoomLive
    /\ i \in 1..Len(roster)
    /\ roster[i].metadata # meta
    /\ LET p == [roster[i] EXCEPT !.metadata = meta]
       IN  /\ p \in Candidates
           /\ roster' = [roster EXCEPT ![i] = p]
           /\ events' = events + 1
           /\ Deliver(p)
           /\ Observe(p, TRUE)
    /\ UNCHANGED <<pc, timeout, elapsed, sleeps, via, retval>>
    /\ UNCHANGED <<serverVars, toolVars>>

\* a participant changes its display name: no listener of get_user_metadata
NameChanged(i, name) ==
    /\ RoomLive
    /\ i \in 1..Len(roster)
    /\ roster[i].name # name
    /\ LET p == [roster[i] EXCEPT !.name = name]
       IN  /\ p \in Candidates
           /\ roster' = [roster EXCEPT ![i] = p]
           /\ events' = events + 1
           /\ Observe(p, FALSE)
    /\ checks' = <<>>
    /\ UNCHANGED <<pc, result, event, timeout, elapsed, sleeps, via, retval>>
    /\ UNCHANGED <<serverVars, toolVars>>

\* get_user_metadata(ctx, t) up to its first suspension: the listeners, the
\* scan of the participants already present, start_time and the first test
\* of the loop condition
Call(t) ==
    /\ pc = "idle"
    /\ timeout' = t
    /\ elapsed' = 0
    /\ \E sc \in {Scan(roster, Defaults, FALSE)} :
           /\ result' = sc.result
           /\ event' = sc.event
           /\ checks' = sc.log
           /\ pc' = CASE sc.ret = "True"  -> "returned"
                      [] sc.ret = "raise" -> "raised"
                      [] OTHER            -> IF 0 < t THEN "sleeping" ELSE "returned"
           /\ via' = CASE sc.ret = "True"  -> "entry"
                       [] sc.ret = "raise" -> "raise"
                       [] OTHER            -> IF 0 < t THEN "none" ELSE "timeout"
           /\ retval' = IF sc.ret = "True" \/ (sc.ret = "False" /\ ~(0 < t))
                        THEN sc.result ELSE EmptyMap
           /\ learned' = LearnFrom(DefaultProfile, sc.log)
    /\ eligibleSeen' = \E i \in 1..Len(roster) : Eligible(roster[i])
    /\ plainOnly' = \A i \in 1..Len(roster) : Eligible(roster[i]) => Plain(roster[i])
    /\ offered' = UNION {Offer(roster[i]) : i \in 1..Len(roster)}
    /\ UNCHANGED <<roster, events, sleeps>>
    /\ UNCHANGED <<serverVars, toolVars>>

\* asyncio.sleep(0.5) ends after d ticks; then the rest of the loop body
\* and the next test of the loop condition
Wake(d) ==
    /\ pc = "sleeping"
    /\ elapsed' = elapsed + d
    /\ sleeps' = sleeps + 1
    /\ \E sc \in {Scan(roster, result, event)} :
       LET done == sc.ret = "True" \/ sc.event
       IN  /\ result' = sc.result
           /\ event' = sc.event
           /\ checks' = sc.log
           /\ pc' = CASE sc.ret = "raise" -> "raised"
                      [] done             -> "returned"
                      [] OTHER            -> IF elapsed' < timeout THEN "sleeping" ELSE "returned"
           /\ via' = CASE sc.ret = "raise" -> "raise"
                       [] sc.ret = "True"  -> "poll"
                       [] sc.event         -> "event"
                       [] OTHER            -> IF elapsed' < timeout THEN "none" ELSE "timeout"
           /\ retval' = IF sc.ret # "raise" /\ (done \/ ~(elapsed' < timeout))
                        THEN sc.result ELSE EmptyMap
           /\ learned' = LearnFrom(learned, sc.log)
    /\ UNCHANGED <<roster, events, timeout, eligibleSeen, plainOnly, offered>>
    /\ UNCHANGED <<serverVars, toolVars>>

Next ==
    \/ \E p \in Candidates : Join(p)
    \/ \E i \in 1..MaxRoster : Leave(i)
    \/ \E i \in 1..MaxRoster, meta \in Metas : MetadataChanged(i, meta)
    \/ \E i \in 1..MaxRoster, name \in Names : NameChanged(i, name)
    \/ \E t \in Timeouts : Call(t)
    \/ \E d \in SleepTimes : Wake(d)

Spec == Init /\ [][Next]_vars

\* the event loop runs the coroutine and fires the timer of asyncio.sleep
FairSpec == Spec /\ WF_vars(\E t \in Timeouts : Call(t)) /\ WF_vars(\E d \in SleepTimes : Wake(d))

(***************************************************************************)
(* The token servers at work.                                              *)
(***************************************************************************)
ServerInit ==
    /\ ResolverInit
    /\ ToolsOff
    /\ environ \in Environs
    /\ drawn = {}
    /\ requests = <<>>

\* the server answers the request; the observers take note
Serve(server, method, body, hex, out) ==
    /\ requests' = Append(requests, Served(server, method, body, Answer(out)))
    /\ drawn' = IF out.drew THEN drawn \cup {hex} ELSE drawn
    /\ UNCHANGED <<environ, resolverVars, toolVars>>

\* a server takes one more request; uuid4 does not give a value that it gave
\* before
Fresh(hex) == Len(requests) < MaxRequests /\ hex \notin drawn

\* GET /api/token of agent/server.py
AgentGet(hex, ok) ==
    /\ Fresh(hex)
    /\ Serve("agent", "GET", BodyNone, hex, GetToken(environ, hex, ok))

\* POST /api/token of agent/server.py
AgentPost(body, hex, ok) ==
    /\ Fresh(hex)
    /\ Serve("agent", "POST", body, hex, PostToken(environ, body, hex, ok))

\* GET /api/token of server.py
LocalGet(hex, ok) ==
    /\ Fresh(hex)
    /\ Serve("local", "GET", BodyNone, hex, LocalGetToken(environ, hex, ok))

\* a request to the serverless function
VercelRequest(method, hex) ==
    /\ Fresh(hex)
    /\ Serve("vercel", method, BodyNone, hex, Handler(environ, method, hex))

ServerNext ==
    \/ \E hex \in Uuids, ok \in BOOLEAN : AgentGet(hex, ok)
    \/ \E body \in Bodies, hex \in Uuids, ok \in BOOLEAN : AgentPost(body, hex, ok)
    \/ \E hex \in Uuids, ok \in BOOLEAN : LocalGet(hex, ok)
    \/ \E method \in Methods, hex \in Uuids : VercelRequest(method, hex)

ServerSpec == ServerInit /\ [][ServerNext]_vars

(***************************************************************************)
(* The spy tools at work.                                                  *)
(***************************************************************************)
\* a tool call as the observers keep it: what it did, the error that an API
\* request raised, the flags when it was made and whether initialize() had
\* been called
Called(tool, told, e) ==
    [tool |-> tool, out |-> told.out, api |-> told.api, raised |-> told.raised,
     failed |-> told.failed, err |-> IF told.failed /\ told.api > 0 THEN e ELSE NoError,
     google |-> manager.google_authenticated, github |-> manager.github_authenticated,
     initialized |-> inits > 0]

ToolsInit ==
    /\ ResolverInit
    /\ ServerOff
    /\ manager \in {NewManager(t) : t \in {"", "ghp_0123"}}
    /\ initResult = NotInitialized
    /\ inits = 0
    /\ lastCall = NoCall

\* await spy_manager.initialize()
Initialize(g, h) ==
    /\ inits < MaxInits
    /\ inits' = inits + 1
    /\ \E go \in {InitGoogle(manager, g)} :
       \E gh \in {InitGithub(go.m, h)} :
           /\ manager' = gh.m
           /\ initResult' = IF gh.raised THEN [kind |-> "raised", google |-> go.ret, github |-> FALSE]
                            ELSE [kind |-> "returned", google |-> go.ret, github |-> gh.ret]
    /\ UNCHANGED <<lastCall, resolverVars, serverVars>>

\* the language model calls get_unread_email_summary
EmailTool(n, failAt, e) ==
    /\ failAt <= n + 1
    /\ lastCall' = Called("email", UnreadEmailSummary(manager, n, failAt, e), e)
    /\ UNCHANGED <<manager, initResult, inits, resolverVars, serverVars>>

\* the language model calls check_calendar_today
CalendarTool(n, failAt, e) ==
    /\ lastCall' = Called("calendar", CalendarToday(manager, n, failAt, e), e)
    /\ UNCHANGED <<manager, initResult, inits, resolverVars, serverVars>>

\* the language model calls get_github_activity
GithubTool(n, pushes, failAt, e) ==
    /\ pushes <= n
    /\ lastCall' = Called("github", GithubActivity(manager, n, pushes, failAt, e), e)
    /\ UNCHANGED <<manager, initResult, inits, resolverVars, serverVars>>

ToolsNext ==
    \/ \E g \in GoogleRuns, h \in GithubRuns : Initialize(g, h)
    \/ \E n \in 0..MaxItems, failAt \in 0..(MaxItems + 1), e \in GoogleErrors : EmailTool(n, failAt, e)
    \/ \E n \in 0..MaxItems, failAt \in 0..1, e \in GoogleErrors : CalendarTool(n, failAt, e)
    \/ \E n \in 0..MaxItems, pushes \in 0..MaxItems, failAt \in 0..2, e \in GithubErrors : GithubTool(n, pushes, failAt, e)

ToolsSpec == ToolsInit /\ [][ToolsNext]_vars

(***************************************************************************)
(* Properties of get_user_metadata.                                        *)
(***************************************************************************)
Returned == pc = "returned"

\* the check_participant calls of the last step
Entries == {checks[i] : i \in 1..Len(checks)}

\* C1: get_user_metadata never raises to its caller, whatever the
\* participants join with and publish (empty, unparseable, or any JSON value).
C1_NeverRaises == pc # "raised"

\* C2: every call of get_user_metadata eventually returns, whatever the
\* roster and the event source do: once called, it reaches its return.
C2_CallReturns == (pc # "idle") ~> Returned

\* (with C2) the loop makes no more sleeps than the elapsed time needs to
\* reach the timeout: before each sleep but the first the budget was not used up
C2_SleepsBounded == sleeps * PollInterval <= elapsed /\ (sleeps > 0 => (sleeps - 1) * PollInterval < timeout)

\* (with C2) a call that has been made ends, by a return or by an exception
C2_CallEnds == (pc # "idle") ~> (pc \in {"returned", "raised"})

\* C3: if no eligible (non-agent) participant is present at entry or appears
\* before the timeout, the call returns exactly the default profile, with no
\* other keys, and it does so on the timeout path.
C3_DefaultsWithoutUser == (Returned /\ ~eligibleSeen) => (retval = DefaultProfile /\ DOMAIN retval = ProfileFields /\ via = "timeout")

\* C3 witness: a call that slept, with agents only in the room, has returned
C3_Witness == Returned /\ ~eligibleSeen /\ sleeps > 0 /\ \E i \in 1..Len(roster) : roster[i].identity \in AgentIdentities /\ roster[i].metadata = MetaFull

\* C4: on every return path the returned profile has all five fields, each
\* holding its default or a value offered by an eligible participant during
\* the call, and it is the profile learned so far: the values learned from
\* scans and callbacks are kept, the fields never learned carry defaults.
C4_ReturnedProfileComplete ==
    Returned =>
        /\ ProfileFields \subseteq DOMAIN retval
        /\ \A k \in ProfileFields : retval[k] = DefaultProfile[k] \/ <<k, retval[k]>> \in offered
        /\ retval = learned

\* C4 witness: a return on timeout that keeps a learned name beside defaults
C4_Witness == Returned /\ via = "timeout" /\ sleeps > 0 /\ retval["name"] = Str("Abe") /\ retval["city"] = Str("India")

\* an entry of the record of checks: eligible participant, metadata of a kind
EntryOf(e, metas) == Eligible(e.p) /\ e.p.metadata \in metas

\* C5 (as stated): after a check of an eligible participant whose metadata
\* parses as a record P, the profile maps every key of P with a truthy value to
\* that value, and every other key keeps the value it had before the check.
C5_MergeKeepsOtherKeys ==
    \A e \in Entries : EntryOf(e, RecordMetas) =>
        LET c == Contribution(e.p.metadata)
        IN  /\ \A k \in DOMAIN c : k \in DOMAIN e.after /\ e.after[k] = c[k]
            /\ \A k \in DOMAIN e.after \ DOMAIN c : k \in DOMAIN e.before /\ e.after[k] = e.before[k]

\* C5 (amended): after such a check the profile maps every key of P with a
\* truthy value to that value; every other key keeps the value it had before
\* the check, except name, which holds the display name of the participant
\* when that is a real one; no other key appears.
C5_MergeOverDisplayName ==
    \A e \in Entries : EntryOf(e, RecordMetas) =>
        LET c == Contribution(e.p.metadata)
        IN  /\ DOMAIN e.after = DOMAIN e.before \cup DOMAIN c
            /\ \A k \in DOMAIN c : e.after[k] = c[k]
            /\ \A k \in DOMAIN e.before \ DOMAIN c :
                 e.after[k] = IF k = "name" /\ e.p.name \in RealNames THEN Str(e.p.name) ELSE e.before[k]

\* C5 witness: a check has merged a record with falsy entries and no name
\* over a profile, from a participant with a real display name
C5_Witness == \E e \in Entries : EntryOf(e, {MetaPartial}) /\ e.p.name \in RealNames /\ e.before["city"] # Str("India") /\ e.after["city"] = Str("Pune") /\ e.after["state"] = Str("")

\* C6 (as stated): a check of a participant whose metadata fails to parse
\* leaves the profile equal to the profile before the check.
C6_UnparseableKeepsProfile == \A e \in Entries : EntryOf(e, MalformedMetas) => e.after = e.before

\* C6 (amended): a check of a participant whose metadata fails to parse
\* changes no field but name, and name only to the real display name of the
\* participant; without a real display name the profile is unchanged.
C6_UnparseableKeepsAllButName ==
    \A e \in Entries : EntryOf(e, MalformedMetas) =>
        e.after = IF e.p.name \in RealNames THEN [e.before EXCEPT !["name"] = Str(e.p.name)] ELSE e.before

\* C6 witness: a check of unparseable metadata has put the display name in
\* place of a name learned from earlier metadata
C6_Witness == \E e \in Entries : EntryOf(e, MalformedMetas) /\ e.p.name \in RealNames /\ e.before["name"] = Str("Abraham") /\ e.after["name"] = Str("Abe")

\* C7: no check of a participant whose identity contains "agent" in any
\* letter case changes a profile field, sets the completion signal or reports
\* completion, even with a real display name and valid metadata.
C7_AgentNeverSource ==
    \A e \in Entries : e.p.identity \in AgentIdentities =>
        e.after = e.before /\ e.evAfter = e.evBefore /\ e.ret = "False"

\* C7 witness: agents of both spellings, with a real display name and valid
\* metadata, have been checked by a callback and by a scan
C7_Witness == \E e \in Entries : e.p = Participant(IdMixed, "Abe", MetaFull) /\ e.by = "scan" /\ \E i \in 1..Len(roster) : roster[i].identity = IdAgent /\ roster[i].metadata = MetaFull

\* C8: a placeholder display name ("User", "null", "undefined") is never
\* adopted as the profile name, and a call that saw no eligible participant
\* but ones with a placeholder display name and no metadata runs to the
\* timeout and returns with name = "Boss".
C8_PlaceholderNotAdopted ==
    /\ \A e \in Entries : e.p.name \in {"User", "null", "undefined"} => e.after["name"] # Str(e.p.name)
    /\ (Returned /\ eligibleSeen /\ plainOnly) => (via = "timeout" /\ retval["name"] = Str("Boss"))

\* C8 witness: a call with placeholder-named participants only has slept and
\* returned
C8_Witness == Returned /\ eligibleSeen /\ plainOnly /\ sleeps > 0 /\ \E i \in 1..Len(roster) : roster[i].name = "undefined" /\ Eligible(roster[i])

\* an eligible participant whose metadata parses as a record
RecordHolder(p) == Eligible(p) /\ p.metadata \in RecordMetas

\* C9: when an eligible participant with metadata that parses as a record is
\* present at entry, the call returns at entry; when one is in the room at a
\* poll, or a callback has parsed one since the last poll, the call returns at
\* that poll; the call does not go on to the timeout or end otherwise.
C9_RecordReturnsPromptly ==
    [][/\ (pc = "idle" /\ pc' # "idle" /\ \E i \in 1..Len(roster) : RecordHolder(roster[i]))
            => (pc' = "returned" /\ via' = "entry")
       /\ (pc = "sleeping" /\ sleeps' # sleeps /\ (event \/ \E i \in 1..Len(roster) : RecordHolder(roster[i])))
            => (pc' = "returned" /\ via' \in {"poll", "event"})]_vars

\* (with C9) but for the exception of C1 such a step does end the call
C9_RecordEndsCall ==
    [][/\ (pc = "idle" /\ pc' # "idle" /\ \E i \in 1..Len(roster) : RecordHolder(roster[i]))
            => ((pc' = "returned" /\ via' = "entry") \/ pc' = "raised")
       /\ (pc = "sleeping" /\ sleeps' # sleeps /\ (event \/ \E i \in 1..Len(roster) : RecordHolder(roster[i])))
            => ((pc' = "returned" /\ via' \in {"poll", "event"}) \/ pc' = "raised")]_vars

\* C10: a check of an eligible participant whose metadata is malformed JSON
\* never reports completion, so that no scan returns because of it.
C10_MalformedNeverCompletes == \A e \in Entries : EntryOf(e, MalformedMetas) => e.ret = "False"

\* C11: check_participant is idempotent: run again on the same participant,
\* with the profile and the signal as the first run left them, it leaves the
\* same profile and signal and has the same outcome; so a participant checked
\* by a callback and then by a poll scan is left with the same merged profile.
C11_CheckIdempotent ==
    \A e \in Entries :
        LET again == CheckParticipant(e.p, e.after, e.evAfter)
        IN  again.result = e.after /\ again.event = e.evAfter /\ again.ret = e.ret

\* (with C11) a poll scan that begins with the participant that the callback
\* of the step before checked leaves the profile and the outcome of that check
C11_CallbackThenPoll ==
    [][\A c \in Entries :
         (c.by = "callback" /\ checks' # <<>> /\ checks'[1].by = "scan" /\ checks'[1].p = c.p)
             => (checks'[1].before = c.after /\ checks'[1].after = c.after /\ checks'[1].ret = c.ret)]_vars

\* C11 witness: a poll scan has checked again, with no change, a participant
\* whose display name and record have been merged over another profile
C11_Witness == \E e \in Entries : e.by = "scan" /\ pc # "idle" /\ sleeps > 0 /\ e.p = Participant(IdUser, "Abe", MetaPartial) /\ e.before = e.after /\ e.after["city"] = Str("Pune") /\ e.after["name"] = Str("Abe") /\ e.after["profession"] = Str("Engineer")

\* C12: through the checks of a call no field of the profile is removed, and
\* a field changes only to a truthy value that the participant of the check
\* supplies for that key; so a learned field is not reset to its default.
C12_LearnedFieldsKept ==
    [][/\ \A k \in DOMAIN result :
            /\ k \in DOMAIN result'
            /\ result'[k] # result[k] => \E i \in 1..Len(checks') : <<k, result'[k]>> \in Offer(checks'[i].p)
       /\ \A i \in 1..Len(checks') :
            \A k \in DOMAIN checks'[i].before :
                /\ k \in DOMAIN checks'[i].after
                /\ checks'[i].after[k] # checks'[i].before[k] => <<k, checks'[i].after[k]>> \in Offer(checks'[i].p)]_vars

\* C12 witness: a later partial record has been merged and the fields learned
\* before it, which it does not supply, are in place
C12_Witness == \E e \in Entries : EntryOf(e, {MetaPartial}) /\ e.before["profession"] = Str("Engineer") /\ e.before["name"] = Str("Abraham") /\ e.after["profession"] = Str("Engineer") /\ e.after["name"] = Str("Abraham") /\ e.after["city"] = Str("Pune")

\* C13: after get_user_metadata has returned, the profile object that it
\* returned holds, field by field, what it held at the return.
C13_ReturnedProfileImmutable == Returned => result = retval

\* an eligible participant with a real display name and no metadata string
NameOnly(p) == Eligible(p) /\ p.name \in RealNames /\ p.metadata = MetaNone

\* C20: a check of an eligible participant with a real display name and no
\* metadata string adopts the name, changes nothing else and reports not
\* complete; and while such a participant is in the room, no eligible
\* participant of the room has a metadata string and the signal is not set, a
\* poll goes back to sleep, or returns on the timeout when the budget is used.
C20_NameOnlyKeepsWaiting ==
    [][/\ \A i \in 1..Len(checks') : NameOnly(checks'[i].p) =>
            /\ checks'[i].after = [checks'[i].before EXCEPT !["name"] = Str(checks'[i].p.name)]
            /\ checks'[i].evAfter = checks'[i].evBefore
            /\ checks'[i].ret = "False"
       /\ (/\ (pc = "idle" /\ pc' # "idle") \/ (pc = "sleeping" /\ sleeps' # sleeps)
           /\ ~event
           /\ \E i \in 1..Len(roster) : NameOnly(roster[i])
           /\ \A i \in 1..Len(roster) : Eligible(roster[i]) => roster[i].metadata = MetaNone)
            => /\ result'["name"] \in {Str(n) : n \in RealNames}
               /\ ~event'
               /\ IF elapsed' < timeout' THEN pc' = "sleeping" ELSE pc' = "returned" /\ via' = "timeout"]_vars

\* C20 witness: a poll has checked a participant with a real display name and
\* no metadata, adopted the name, and the call sleeps on
C20_Witness == pc = "sleeping" /\ sleeps > 0 /\ ~event /\ result["name"] = Str("Abe") /\ result["city"] = Str("India") /\ \E e \in Entries : e.by = "scan" /\ NameOnly(e.p) /\ e.ret = "False"

\* an eligible participant with a real display name and a non-empty
\* metadata string that does not parse
NamedUnparseable(p) == Eligible(p) /\ p.name \in RealNames /\ p.metadata \in MalformedMetas

\* the checks that the scan of the last step made of such participants
NamedUnparseableScans == {e \in Entries : e.by = "scan" /\ NamedUnparseable(e.p)}

C22_CallbackCompletionSignalled ==
    \A e \in Entries : (e.by = "callback" /\ e.ret = "True" /\ pc = "sleeping") => (e.evAfter /\ event)

\* C24: the completion signal is monotone and is observed at poll ticks only:
\* once set it is never cleared; a waiting call leaves its wait at a poll
\* only, never in the step of a callback; and the poll that finds the signal
\* set returns, this poll and no later one.
C24_SignalObservedAtPoll ==
    [][/\ event => event'
       /\ (pc = "sleeping" /\ pc' # "sleeping") => sleeps' = sleeps + 1
       /\ (pc = "sleeping" /\ event /\ sleeps' # sleeps) => (pc' = "returned" /\ via' \in {"poll", "event"} /\ retval' = result')]_vars

\* (with C24) but for the exception of C1 the poll that finds the signal set
\* does end the call, and the signal and the wait are as stated
C24_SignalEndsCall ==
    [][/\ event => event'
       /\ (pc = "sleeping" /\ pc' # "sleeping") => sleeps' = sleeps + 1
       /\ (pc = "sleeping" /\ event /\ sleeps' # sleeps)
            => ((pc' = "returned" /\ via' \in {"poll", "event"} /\ retval' = result') \/ pc' = "raised")]_vars

\* (with C24) a callback that runs after the signal was set and before the
\* poll has changed the profile that the call is about to return
C24_ChangedAfterSignal == pc = "sleeping" /\ \E e \in Entries : e.by = "callback" /\ e.evBefore /\ e.after # e.before

\* the name that a check of p is to leave in a profile that held name "before"
NameAfter(p, before) ==
    IF "name" \in DOMAIN Contribution(p.metadata) THEN Contribution(p.metadata)["name"]
    ELSE IF p.name \in RealNames THEN Str(p.name)
    ELSE before

\* an eligible participant without a real display name whose metadata is
\* non-empty and does not parse
UnnamedUnparseable(p) == Eligible(p) /\ p.name \notin RealNames /\ p.metadata \in MalformedMetas

RecordBodies == {BodyPriya, BodyProfile, BodyNoName, BodyEmptyDetails}

\* the bodies that are a JSON object
ObjectBodies == RecordBodies \cup {BodyNoDetails, BodyListDetails}

\* the record that userDetails is in a body of RecordBodies
Details(body) ==
    CASE body = BodyPriya   -> ("name" :> Str("Priya"))
      [] body = BodyProfile -> ("name" :> Str("Abraham")) @@ ("city" :> Str("Kochi")) @@ ("age" :> Num("30"))
                               @@ ("vip" :> JTrue) @@ ("tags" :> List(<<Str("a"), Str("b")>>)) @@ ("state" :> Str(""))
      [] body = BodyNoName  -> ("city" :> Str("Pune")) @@ ("extra" :> Dict("k" :> JNull))
      [] OTHER              -> EmptyMap

\* the three settings are there
SettingsPresent == \A n \in EnvNames : environ[n] \notin {Unset, EnvVal("")}

\* the requests taken so far
Requests == {requests[i] : i \in 1..Len(requests)}

\* a POST to agent/server.py with a record for userDetails that got a token
RecordPost(r) == r.server = "agent" /\ r.method = "POST" /\ r.body \in RecordBodies /\ r.status = 200

\* a request with a body that the handler takes: a GET, or a POST of a JSON
\* object to agent/server.py
Acceptable(r) == (r.method = "GET" /\ r.server \in {"agent", "local"}) \/ (r.server = "agent" /\ r.method = "POST" /\ r.body \in ObjectBodies)

\* C14 (as stated): for a POST with a record D for userDetails, the metadata
\* claim of the token decodes to D, and the name of the token is the name of D
\* when D has one.
C14_MetadataRoundTrip ==
    \A r \in Requests : RecordPost(r) =>
        /\ JsonLoads(r.reply.token.metadata) = [ok |-> TRUE, val |-> Dict(Details(r.body))]
        /\ "name" \in DOMAIN Details(r.body) => r.reply.token.name = Details(r.body)["name"]

\* C14 (amended): for a POST with a record D for userDetails that is not
\* empty, the metadata claim of the token decodes to D, and the name of the
\* token is the name of D when D has one and "User" otherwise; for an empty D
\* the token has no metadata claim and the name "User".
C14_NonEmptyRoundTrip ==
    \A r \in Requests : RecordPost(r) =>
        IF DOMAIN Details(r.body) # {}
        THEN /\ JsonLoads(r.reply.token.metadata) = [ok |-> TRUE, val |-> Dict(Details(r.body))]
             /\ r.reply.token.name = IF "name" \in DOMAIN Details(r.body) THEN Details(r.body)["name"] ELSE Str("User")
        ELSE r.reply.token.metadata = <<>> /\ r.reply.token.name = Str("User")

\* C14 witness: tokens have been issued for a record with nested and falsy
\* values and for a record without a name
C14_Witness == (\E r \in Requests : RecordPost(r) /\ r.body = BodyProfile) /\ (\E r \in Requests : RecordPost(r) /\ r.body = BodyNoName /\ r.reply.token.metadata # <<>>)

\* C15: the room names of the successful calls of the token endpoint of
\* agent/server.py differ from one another, and so do the identities.
C15_RoomsDistinct ==
    \A i, j \in 1..Len(requests) :
        (i < j /\ requests[i].server = "agent" /\ requests[j].server = "agent" /\ requests[i].status = 200 /\ requests[j].status = 200)
            => (requests[i].reply.room # requests[j].reply.room /\ requests[i].reply.identity # requests[j].reply.identity)

\* C16: with the three settings there and an acceptable body, the answer is
\* the success response with token, url, identity and room for the new room,
\* whether the dispatch was created or raised.
C16_DispatchFailureHidden ==
    \A r \in Requests : (SettingsPresent /\ Acceptable(r)) =>
        /\ r.status = 200
        /\ DOMAIN r.reply = {"token", "url", "identity", "room"}
        /\ r.reply.url = environ["LIVEKIT_URL"].text
        /\ r.reply.token.sub = r.reply.identity
        /\ r.reply.token.video.room = r.reply.room
        /\ r.minted
        /\ r.dispatch \in {"created", "failed"}

\* C16 witness: a POST and a GET of server.py were answered with success
\* though their dispatch raised
C16_Witness == (\E r \in Requests : r.server = "agent" /\ r.method = "POST" /\ r.dispatch = "failed" /\ r.status = 200) /\ (\E r \in Requests : r.server = "local" /\ r.dispatch = "failed" /\ r.status = 200)

\* the fixed error response
CredentialsError(r) == r.status = 500 /\ r.reply = [error |-> <<"LiveKit credentials not configured">>]

\* C17 (as stated): when one of the three settings is missing, every token
\* request, GET or POST, is answered with status 500 and "LiveKit credentials
\* not configured", no token is signed and no dispatch attempted.
C17_MissingSettingsAnswer ==
    \A r \in Requests : ~SettingsPresent => (CredentialsError(r) /\ ~r.minted /\ r.dispatch = "none")

\* C17 (amended): when one of the three settings is missing, no token is
\* signed and no dispatch attempted; a GET of a token endpoint and a POST of
\* a JSON object to agent/server.py are answered with status 500 and "LiveKit
\* credentials not configured"; a POST of anything else to agent/server.py is
\* answered with status 400, a request other than GET to api/token.py with 405.
C17_MissingSettingsNoToken ==
    \A r \in Requests : ~SettingsPresent =>
        /\ ~r.minted
        /\ r.dispatch = "none"
        /\ "token" \notin DOMAIN r.reply
        /\ CASE r.server = "vercel" /\ r.method # "GET" -> r.status = 405
             [] r.server = "agent" /\ r.method = "POST" /\ r.body \notin ObjectBodies -> r.status = 400
             [] OTHER -> CredentialsError(r)

\* C17 witness: with LIVEKIT_URL set to the empty string, a POST of a JSON
\* object and a GET of api/token.py got the fixed error
C17_Witness == environ["LIVEKIT_URL"] = EnvVal("") /\ environ["LIVEKIT_API_KEY"] # Unset /\ environ["LIVEKIT_API_SECRET"] # Unset /\ (\E r \in Requests : r.server = "agent" /\ r.method = "POST" /\ r.body = BodyPriya /\ CredentialsError(r)) /\ (\E r \in Requests : r.server = "vercel" /\ r.method = "GET" /\ CredentialsError(r))

(***************************************************************************)
(* Properties of the spy tools.                                            *)
(***************************************************************************)
NoAccessStrings == {<<GmailNoAccess>>, <<CalendarNoAccess>>, <<GithubNoAccess>>}

\* the no-access string of a tool and the flag that the tool goes by
NoAccessOf(tool) == CASE tool = "email" -> <<GmailNoAccess>> [] tool = "calendar" -> <<CalendarNoAccess>> [] OTHER -> <<GithubNoAccess>>

OwnFlag(call) == IF call.tool = "github" THEN call.github ELSE call.google

\* C18: a tool called while its own credential is not authenticated returns
\* its no-access string and makes no API request, before initialize() too;
\* with its own credential authenticated it does not return that string,
\* whatever the other credential is.
C18_NoAccessWithoutCredential ==
    lastCall.tool # "none" =>
        /\ ~lastCall.raised
        /\ IF OwnFlag(lastCall)
           THEN lastCall.out \notin NoAccessStrings
           ELSE lastCall.out = NoAccessOf(lastCall.tool) /\ lastCall.api = 0
        /\ ~lastCall.initialized => (lastCall.out = NoAccessOf(lastCall.tool) /\ lastCall.api = 0)

\* C18 witness: get_github_activity was called with Google authenticated and
\* GitHub not
C18_Witness == lastCall.tool = "github" /\ lastCall.google /\ ~lastCall.github /\ lastCall.initialized /\ lastCall.out = <<GithubNoAccess>> /\ manager.gmail_service # "None"

\* the failure string of a tool, before the name of the error
FailedOf(tool) == CASE tool = "email" -> GmailFailed [] tool = "calendar" -> CalendarFailed [] OTHER -> GithubFailed

\* the status of a GithubException as it is printed
StatusText(status) == CASE status = 401 -> "401" [] status = 403 -> "403" [] status = 404 -> "404" [] OTHER -> "?"

\* a call in which an API request raised
FailedCall == lastCall.tool # "none" /\ lastCall.failed /\ lastCall.api > 0

C23_InitializeNeverRaises ==
    /\ initResult.kind # "raised"
    /\ initResult.kind = "returned" =>
         /\ (~initResult.google => ~manager.google_authenticated)
         /\ (~initResult.github => ~manager.github_authenticated)

\* (with C23) the first initialize() of a manager, when it returns, returns
\* the flags of the manager; and Google alone never makes it raise
C23_FirstStatusIsFlags ==
    /\ (inits = 1 /\ initResult.kind = "returned") =>
         (initResult.google = manager.google_authenticated /\ initResult.github = manager.github_authenticated)
    /\ (inits > 0 /\ manager.github_token = "") => initResult.kind = "returned"

\* the handles of a manager that are set
HandlesSet(m, handles) == \A h \in handles : m[h] # "None"

\* C26: in every state of a manager, if the Google flag is true then the
\* Gmail and the Calendar service handles are set, and if the GitHub flag is
\* true then the GitHub client and username are set; and a step that is no
\* initialize() call, that is a tool call, changes no flag and no handle.
C26_FlagsImplyHandles ==
    [][/\ manager.google_authenticated => HandlesSet(manager, {"gmail_service", "calendar_service"})
       /\ manager.github_authenticated => HandlesSet(manager, {"github_client", "github_username"})
       /\ manager'.google_authenticated => HandlesSet(manager', {"gmail_service", "calendar_service"})
       /\ manager'.github_authenticated => HandlesSet(manager', {"github_client", "github_username"})
       /\ inits' = inits => manager' = manager]_vars

\* C26 witness: after a successful initialize(), a second one in which the
\* Calendar build and the GitHub token check failed, and a tool call made
\* since, the manager holds the handles and no flag
C26_Witness ==
    /\ inits = 2 /\ lastCall.tool = "github" /\ lastCall.initialized
    /\ ~manager.google_authenticated /\ ~manager.github_authenticated
    /\ HandlesSet(manager, {"gmail_service", "calendar_service", "github_client", "github_username"})
    /\ initResult = [kind |-> "returned", google |-> FALSE, github |-> FALSE]

====
